---- MODULE Spec2Model ----
(***************************************************************************)
(* Model of EmailOfferPipeline (EML_Email_To_LeadBringer_And_Airtable.py): *)
(* the folder of .eml files, the persisted ledger of processed identities, *)
(* the in-memory ledger, the per-run dedup dictionary `latest`, the image  *)
(* folder and the output artifacts.  One action per loop iteration outcome *)
(* of process(), one for the constructor plus the start of process(), one  *)
(* per way process() ends.  Its helper functions _cat and _body, and       *)
(* is_tracking_pixel of LeadBringerOfferKnowledge.py, are operators; a     *)
(* call of one of them on its own is an action that records arguments and  *)
(* result in `probe`; so are extract_quality_images and parse_offer.       *)
(* The POST /companies and POST /calls handlers of api/index.py run as     *)
(* concurrent requests against the Airtable tables, one action per request *)
(* sent to Airtable.                                                       *)
(***************************************************************************)
EXTENDS Integers, Sequences, FiniteSets, TLC

\* ------------------------------------------------------------------ bounds
\* Parts of a message _body is called on by itself.
MaxParts == 3
\* Files the e-mail folder may hold.
MaxFiles == 3
\* Runs of the pipeline (constructor + process()) in one behaviour.
MaxRuns == 2
\* Exceptions the environment raises (unreadable file, failed write, ...)
\* in one behaviour.
MaxFaults == 1
\* Requests the API receives in one behaviour.
MaxReqs == 2

\* ------------------------------------------------------------ pure helpers
\* Positions of a sequence that satisfy nothing in particular: its index set.
Idx(s) == 1..Len(s)

\* The tokens header text is made of: words, reply/forward markers, blanks.
Tokens ==
  {"RE:", "Re:", "re:", "FW:", "fw:", "Fwd:", "FWD:", "fwd:", "Offer:", "OFFER:",
   "offer:", "SPC", "spc", "Tile", "tile", "Quote", "quote", " ",
   "1", "2", "3", "4", "5"}

\* str.lower()/str.casefold() on one token.
Lower(tok) ==
  CASE tok = "RE:" -> "re:"
    [] tok = "Re:" -> "re:"
    [] tok = "FW:" -> "fw:"
    [] tok = "Fwd:" -> "fwd:"
    [] tok = "FWD:" -> "fwd:"
    [] tok = "Offer:" -> "offer:"
    [] tok = "OFFER:" -> "offer:"
    [] tok = "SPC" -> "spc"
    [] tok = "Tile" -> "tile"
    [] tok = "Quote" -> "quote"
    [] tok = "LVT" -> "lvt"
    [] tok = "Laminate" -> "laminate"
    [] tok = "Textile" -> "textile"
    [] tok = "Solid" -> "solid"
    [] tok = "Hardwood" -> "hardwood"
    [] tok = "Oak" -> "oak"
    [] OTHER -> tok

\* A whitespace token (\s in the regex, what str.strip() removes).
IsSpace(tok) == tok = " "

\* The alternatives of SUBJ_CLEAN_RGX, matched case-insensitively (re.I).
IsMarker(tok) == Lower(tok) \in {"re:", "fw:", "fwd:"}

\* The positions of s that hold no whitespace.
NonSpace(s) == {i \in Idx(s) : ~IsSpace(s[i])}

\* str.lstrip(): s from its first non-whitespace token on.
LStrip[s \in Seq(Tokens)] ==
  IF NonSpace(s) = {} THEN <<>>
  ELSE SubSeq(s, CHOOSE i \in NonSpace(s) : \A j \in NonSpace(s) : i <= j, Len(s))

\* str.rstrip(): s up to its last non-whitespace token.
RStrip[s \in Seq(Tokens)] ==
  IF NonSpace(s) = {} THEN <<>>
  ELSE SubSeq(s, 1, CHOOSE i \in NonSpace(s) : \A j \in NonSpace(s) : j <= i)

\* str.strip()
Strip[s \in Seq(Tokens)] == RStrip[LStrip[s]]

\* str.casefold()
Casefold[s \in Seq(Tokens)] == [i \in Idx(s) |-> Lower(s[i])]

\* SUBJ_CLEAN_RGX.sub('', s): the pattern is anchored at the start, so it
\* removes at most one marker, and only one that is the very first token,
\* together with the whitespace that follows it.
SubjCleanSub[s \in Seq(Tokens)] ==
  IF s # <<>> /\ IsMarker(Head(s)) THEN LStrip[Tail(s)] ELSE s

\* SUBJ_CLEAN_RGX.sub applied until no marker leads: every stacked marker
\* is removed.
SubjCleanAll[s \in Seq(Tokens)] ==
  IF s # <<>> /\ IsMarker(Head(s)) THEN SubjCleanAll[LStrip[Tail(s)]] ELSE s

\* _clean_subj removing every leading marker.
CleanSubj_AllMarkers(s) == Strip[Casefold[SubjCleanAll[s]]]

\* EmailOfferPipeline._clean_subj
CleanSubj(s) == Strip[Casefold[SubjCleanSub[s]]]

\* datetime.min, the timestamp of a missing or unparseable Date header.
DtMin == 0

\* A Date header: kind "ok" is a parseable date with local time t and UTC
\* offset off; "none" is a missing header (msg.get('Date', '') = '');
\* "bad" is text parsedate_to_datetime rejects.
DateOk(t, off) == [kind |-> "ok", t |-> t, off |-> off]
DateNone == [kind |-> "none", t |-> 0, off |-> 0]
DateBad == [kind |-> "bad", t |-> 0, off |-> 0]

\* _as_dt with the except branch returning datetime.max: a missing or
\* unparseable Date header is the latest timestamp there is.
AsDt_BadIsLatest(d) == IF d.kind = "ok" THEN d.t - d.off ELSE 99

\* EmailOfferPipeline._as_dt: the UTC instant of a parseable header.
AsDt(d) == IF d.kind = "ok" THEN d.t - d.off ELSE DtMin

\* hashlib.md5(bytes).hexdigest(), on the byte strings of the model (each
\* byte string is named by a number); distinct inputs, distinct digests.
Md5Hex(bytes) ==
  CASE bytes = 1 -> "c4ca" [] bytes = 2 -> "c81e" [] bytes = 3 -> "eccb"
    [] bytes = 4 -> "a87f" [] bytes = 5 -> "e4da" [] bytes = 6 -> "1679"
    [] bytes = 7 -> "8f14" [] OTHER -> "c9f0"

\* ------------------------------------------------------------ the messages
\* A MIME part as msg.walk() yields it: its content type, whether its
\* Content-Disposition contains "attachment", whether
\* get_payload(decode=True).decode(errors='ignore') returns (ok) or raises,
\* and the text it returns.
Part(ctype, attach, ok, text) ==
  [ctype |-> ctype, attach |-> attach, ok |-> ok, text |-> text]

\* A multipart container: its get_payload(decode=True) is None.
Multi == Part("multipart/alternative", FALSE, FALSE, <<>>)
Html(text) == Part("text/html", FALSE, TRUE, text)
Plain(text) == Part("text/plain", FALSE, TRUE, text)

\* The parts of a message are its image parts (imgs) and its other parts
\* (parts), each list in walk order.
\* An image part of a message: its Content-ID ("" when absent), the
\* extension mimetypes guesses for its content type, its decoded payload
\* (0: no decodable payload).
ImgPart(cid, ext, data) ==
  [maintype |-> "image", attach |-> FALSE, cid |-> cid, ext |-> ext,
   data |-> data]

\* The same image part sent with Content-Disposition: attachment.
Attached(p) == [p EXCEPT !.attach = TRUE]

\* A part of another main type, as _save_imgs meets it on its walk.
TextPart ==
  [maintype |-> "text", attach |-> FALSE, cid |-> "", ext |-> ".txt",
   data |-> 5]

\* email.message_from_binary_file: the message a file's bytes parse to.
\* msgid "" is a message without Message-ID, subj <<>> one without Subject.
Parse(bytes) ==
  CASE bytes = 1 ->
         [msgid |-> "<a>", subj |-> <<"Offer:", " ", "SPC">>,
          date |-> DateOk(3, 0), imgs |-> <<ImgPart("logo", ".png", 11)>>,
          parts |-> <<Multi, Html(<<>>), Plain(<<"SPC", "Oak">>)>>]
    [] bytes = 2 ->
         [msgid |-> "<b>", subj |-> <<"RE:", " ", "offer:", " ", "SPC">>,
          date |-> DateOk(5, 1), imgs |-> <<ImgPart("logo", ".png", 13)>>,
          parts |-> <<Plain(<<"Laminate">>)>>]
    [] bytes = 3 ->
         [msgid |-> "<c>", subj |-> <<"Fwd:", "OFFER:", " ", "spc", " ">>,
          date |-> DateOk(4, 1), imgs |-> <<>>,
          parts |-> <<Multi, Part("text/html", TRUE, TRUE, <<"<p>", "LVT", "</p>">>),
                      Plain(<<"Tile">>)>>]
    [] bytes = 4 ->
         [msgid |-> "", subj |-> <<"FW:", " ", "Offer:", " ", "SPC">>,
          date |-> DateBad, imgs |-> <<>>, parts |-> <<Multi>>]
    [] bytes = 5 ->
         [msgid |-> "<a>", subj |-> <<"offer:", " ", "spc">>,
          date |-> DateNone, imgs |-> <<ImgPart("", ".jpg", 0)>>,
          parts |-> <<Multi, Html(<<"<img>">>), Plain(<<"Oak">>)>>]
    [] OTHER ->
         [msgid |-> "<d>", subj |-> <<>>, date |-> DateOk(6, 0), imgs |-> <<>>,
          parts |-> <<Multi, Plain(<<"Hardwood", "Oak">>),
                      Html(<<"<p>", "Solid", "Hardwood", "</p>">>)>>]

\* The byte strings a file of the folder may hold.
RawBytes == 1..6

\* Path.stem of the i-th file of the folder.
Stem(i) ==
  CASE i = 1 -> <<"Quote", "1">> [] i = 2 -> <<"Quote", "2">>
    [] i = 3 -> <<"Quote", "3">> [] i = 4 -> <<"Quote", "4">>
    [] OTHER -> <<"Quote", "5">>

\* _msg_id returning the bare hexdigest for a message without Message-ID.
MsgId_BareDigest(bytes) ==
  IF Parse(bytes).msgid # "" THEN Parse(bytes).msgid ELSE Md5Hex(bytes)

\* EmailOfferPipeline._msg_id: the Message-ID header, else "<md5 of the file>".
MsgId(bytes) ==
  IF Parse(bytes).msgid # "" THEN Parse(bytes).msgid
  ELSE "<" \o Md5Hex(bytes) \o ">"

\* subj = msg.get('Subject') or f.stem   (line 195)
Subj(i, bytes) == IF Parse(bytes).subj # <<>> THEN Parse(bytes).subj ELSE Stem(i)

\* The file name _save_imgs gives an image part (lines 148-155).
ImgName(p) ==
  IF p.cid # "" THEN p.cid \o p.ext ELSE "img_" \o Md5Hex(p.data) \o p.ext

\* -------------------------------------------------------------------- _cat
\* The keywords of _cat that occur in a lower-cased word (`in` is a
\* substring test: 'tile' occurs in 'textile').
KeywordsIn(word) ==
  CASE word = "spc" -> {"spc"}
    [] word = "lvt" -> {"lvt"}
    [] word = "laminate" -> {"laminate"}
    [] word = "tile" -> {"tile"}
    [] word = "textile" -> {"tile"}
    [] word = "solid" -> {"solid"}
    [] word = "hardwood" -> {"hardwood"}
    [] OTHER -> {}

\* The keywords that occur in f"{sub} {body}".lower()   (line 167)
KeywordsOf(sub, body) ==
  UNION {KeywordsIn(Lower(sub[i])) : i \in Idx(sub)}
    \cup UNION {KeywordsIn(Lower(body[i])) : i \in Idx(body)}

\* _cat with the test for 'tile' moved to the top.
Cat_TileFirst(sub, body) ==
  LET t == KeywordsOf(sub, body)
  IN IF "tile" \in t THEN "Tile"
     ELSE IF "spc" \in t THEN "SPC Flooring"
     ELSE IF "lvt" \in t THEN "LVT Flooring"
     ELSE IF "laminate" \in t THEN "Laminate Flooring"
     ELSE IF "solid" \in t /\ "hardwood" \in t THEN "Solid Hardwood"
     ELSE "Other"

\* EmailOfferPipeline._cat
Cat(sub, body) ==
  LET t == KeywordsOf(sub, body)
  IN IF "spc" \in t THEN "SPC Flooring"
     ELSE IF "lvt" \in t THEN "LVT Flooring"
     ELSE IF "laminate" \in t THEN "Laminate Flooring"
     ELSE IF "tile" \in t THEN "Tile"
     ELSE IF "solid" \in t /\ "hardwood" \in t THEN "Solid Hardwood"
     ELSE "Other"

\* ------------------------------------------------------------------- _body
\* The markup of the model's HTML; everything else in it is text.
IsMarkup(tok) == tok \in {"<p>", "</p>", "<img>"}

\* BeautifulSoup(html, 'html.parser').get_text(' ', strip=True)
GetText(html) == SelectSeq(html, LAMBDA tok : ~IsMarkup(tok))

\* The loop of _body without `and not html_body` / `and not plain_body`:
\* every part of a type replaces the candidate of the type.
RECURSIVE BodyScan_LastWins(_, _, _, _)
BodyScan_LastWins(parts, i, html, plain) ==
  IF i > Len(parts) THEN [html |-> html, plain |-> plain]
  ELSE LET p == parts[i]
       IN IF p.attach THEN BodyScan_LastWins(parts, i + 1, html, plain)
          ELSE IF p.ctype = "text/html"
            THEN BodyScan_LastWins(parts, i + 1,
                                   IF p.ok THEN p.text ELSE html, plain)
          ELSE IF p.ctype = "text/plain"
            THEN BodyScan_LastWins(parts, i + 1, html,
                                   IF p.ok THEN p.text ELSE plain)
          ELSE BodyScan_LastWins(parts, i + 1, html, plain)

\* The loop of _body from part i on (lines 117-132): html and plain are
\* html_body and plain_body; a part whose decoding raises is passed over.
RECURSIVE BodyScan(_, _, _, _)
BodyScan(parts, i, html, plain) ==
  IF i > Len(parts) THEN [html |-> html, plain |-> plain]
  ELSE LET p == parts[i]
       IN IF p.attach THEN BodyScan(parts, i + 1, html, plain)
          ELSE IF p.ctype = "text/html" /\ html = <<>>
            THEN BodyScan(parts, i + 1, IF p.ok THEN p.text ELSE html, plain)
          ELSE IF p.ctype = "text/plain" /\ plain = <<>>
            THEN BodyScan(parts, i + 1, html, IF p.ok THEN p.text ELSE plain)
          ELSE BodyScan(parts, i + 1, html, plain)

\* html_body and plain_body after the loop.
Candidates(parts) == BodyScan(parts, 1, <<>>, <<>>)

\* _body returning the plain candidate whenever there is one.
Body_PlainFirst(parts) ==
  IF Candidates(parts).plain # <<>> THEN Candidates(parts).plain
  ELSE GetText(Candidates(parts).html)

\* EmailOfferPipeline._body   (lines 134-137)
Body(parts) ==
  IF Candidates(parts).html # <<>> THEN GetText(Candidates(parts).html)
  ELSE Candidates(parts).plain

\* ------------------------------------------------------- is_tracking_pixel
\* MINIMUM_IMAGE_SIZE
MINIMUM_IMAGE_SIZE == 50

\* The dimension of an absent width or height attribute (lines 72-73).
AbsentDim == 999

\* str.lower() on one URL fragment.  An image URL is made of fragments; a
\* substring test of the code is a test for a fragment.
UrlLower(f) ==
  CASE f = "Photo" -> "photo"
    [] f = "Pixel.GIF" -> "pixel.gif"
    [] f = ".JSP" -> ".jsp"
    [] OTHER -> f

\* An image URL: the fragments of its host, of its path and of its query
\* string (urlparse: netloc, path, query).
Url(host, path, query) == [host |-> host, path |-> path, query |-> query]

\* img_url.lower(), as the set of the fragments in it.
UrlLowerFrags(u) ==
  {UrlLower(u.host[i]) : i \in Idx(u.host)}
    \cup {UrlLower(u.path[i]) : i \in Idx(u.path)}
    \cup {UrlLower(u.query[i]) : i \in Idx(u.query)}

\* TRACKING_PIXEL_PATTERNS, TRACKING_EXTENSIONS, tracking_domains and the
\* tracking parameters of line 89: the members that are fragments of the
\* model's URLs.
TRACKING_PIXEL_PATTERNS == {"pixel.gif", "/track/"}
TRACKING_EXTENSIONS == {".jsp", ".php"}
TrackingDomains == {"doubleclick", "mailchimp"}
TrackingParams == {"utm_", "fbclid"}

\* Lines 53-55: a denylisted fragment occurs in the lower-cased URL.
PatternHit(u) == UrlLowerFrags(u) \cap TRACKING_PIXEL_PATTERNS # {}

\* Lines 58-65: the lower-cased path ends with a script extension.
ScriptHit(u) ==
  u.path # <<>> /\ UrlLower(u.path[Len(u.path)]) \in TRACKING_EXTENSIONS

\* Lines 80-86: a tracker domain occurs in the lower-cased URL.
DomainHit(u) == UrlLowerFrags(u) \cap TrackingDomains # {}

\* Lines 89-90: a tracking parameter occurs in the lower-cased URL.
ParamHit(u) == UrlLowerFrags(u) \cap TrackingParams # {}

\* The values of a width or height attribute; "" is an absent attribute
\* (img_tag.get(name, '')).
DimAttrs == {"", "1", "10", "49", "50", "400", "10px", "400px", "abc", "100%"}

\* str.replace('px', '')
ReplacePx(a) ==
  CASE a = "10px" -> "10" [] a = "400px" -> "400" [] OTHER -> a

\* int(text): [ok |-> FALSE] stands for ValueError.
IntOf(text) ==
  CASE text = "1" -> [ok |-> TRUE, n |-> 1]
    [] text = "10" -> [ok |-> TRUE, n |-> 10]
    [] text = "49" -> [ok |-> TRUE, n |-> 49]
    [] text = "50" -> [ok |-> TRUE, n |-> 50]
    [] text = "400" -> [ok |-> TRUE, n |-> 400]
    [] OTHER -> [ok |-> FALSE, n |-> 0]

\* int(width) if width else 999   (lines 72-73)
DimOf(a) ==
  IF ReplacePx(a) = "" THEN [ok |-> TRUE, n |-> AbsentDim]
  ELSE IntOf(ReplacePx(a))

\* An <img> tag with its width and height attributes; NoTag is img_tag=None.
Tag(width, height) == [tag |-> TRUE, width |-> width, height |-> height]
NoTag == [tag |-> FALSE, width |-> "", height |-> ""]

\* Lines 71-77 without the try: a ValueError of int() leaves the function.
DimCheck_NoExcept(t) ==
  IF ~DimOf(t.width).ok \/ ~DimOf(t.height).ok THEN "ValueError"
  ELSE IF DimOf(t.width).n < MINIMUM_IMAGE_SIZE
          \/ DimOf(t.height).n < MINIMUM_IMAGE_SIZE
       THEN "True" ELSE "pass"

\* Lines 71-77: the try block; "True" is its return True, "pass" its
\* falling through, from the if or from the bare except after int() raised
\* on the width or, the width parsed, on the height.
DimCheck(t) ==
  IF ~DimOf(t.width).ok THEN "pass"
  ELSE IF ~DimOf(t.height).ok THEN "pass"
  ELSE IF DimOf(t.width).n < MINIMUM_IMAGE_SIZE
          \/ DimOf(t.height).n < MINIMUM_IMAGE_SIZE
       THEN "True" ELSE "pass"

\* is_tracking_pixel(img_url, img_tag): "True", "False", or the exception
\* that leaves it.
IsTrackingPixel(u, t) ==
  IF PatternHit(u) THEN "True"
  ELSE IF ScriptHit(u) THEN "True"
  ELSE IF t.tag /\ DimCheck(t) # "pass" THEN DimCheck(t)
  ELSE IF DomainHit(u) THEN "True"
  ELSE IF ParamHit(u) THEN "True"
  ELSE "False"

\* -------------------------------------------------- extract_quality_images
\* The src attribute of an <img> tag: how it begins and, for a web address,
\* the URL after that; NoSrc is an absent or empty src (img.get('src', '')).
Src(scheme, u) == [scheme |-> scheme, url |-> u]
NoSrc == Src("", Url(<<>>, <<>>, <<>>))

\* src.startswith('http')   (line 107)
StartsWithHttp(src) ==
  CASE src.scheme = "http://" -> TRUE
    [] src.scheme = "https://" -> TRUE
    [] OTHER -> FALSE

\* img.get('alt', '').lower()   (line 116)
AltLower(alt) ==
  CASE alt = "Product photo" -> "product photo"
    [] alt = "Floor" -> "floor"
    [] alt = "TEXTILE" -> "textile"
    [] OTHER -> alt

\* The words of line 117 that occur in a lower-cased alt text (`in` is a
\* substring test: 'tile' occurs in 'textile').
AltWords(alt) ==
  CASE alt = "product photo" -> {"product"}
    [] alt = "floor" -> {"floor"}
    [] alt = "textile" -> {"tile"}
    [] alt = "stone tile" -> {"stone", "tile"}
    [] OTHER -> {}

\* Line 117: any(word in alt for word in [...])
ProductAlt(alt) == AltWords(AltLower(alt)) # {}

\* An <img> tag of the HTML, as soup.find_all('img') yields it.
Img(src, width, height, alt) ==
  [src |-> src, width |-> width, height |-> height, alt |-> alt]

\* Lines 106-113: the tag is neither skipped for its src nor filtered as a
\* tracking pixel.
Quality(img) ==
  /\ img.src # NoSrc
  /\ StartsWithHttp(img.src)
  /\ IsTrackingPixel(img.src.url, Tag(img.width, img.height)) # "True"

\* The loop of lines 105-121 with append for insert(0, src): an image with
\* a product alt text stays where it was found.
RECURSIVE QualityScan_AppendOnly(_, _, _)
QualityScan_AppendOnly(imgs, i, found) ==
  IF i > Len(imgs) THEN found
  ELSE IF ~Quality(imgs[i]) THEN QualityScan_AppendOnly(imgs, i + 1, found)
  ELSE QualityScan_AppendOnly(imgs, i + 1, Append(found, imgs[i].src))

\* The loop of lines 105-121 from tag i on: found_images.
RECURSIVE QualityScan(_, _, _)
QualityScan(imgs, i, found) ==
  IF i > Len(imgs) THEN found
  ELSE IF ~Quality(imgs[i]) THEN QualityScan(imgs, i + 1, found)
  ELSE IF ProductAlt(imgs[i].alt)
    THEN QualityScan(imgs, i + 1, <<imgs[i].src>> \o found)
  ELSE QualityScan(imgs, i + 1, Append(found, imgs[i].src))

\* list(dict.fromkeys(found_images)): the first occurrence of each element,
\* in order (line 124).
Unique(found) ==
  LET firsts == {j \in Idx(found) : \A k \in 1..(j - 1) : found[k] # found[j]}
      nth[n \in 0..Len(found)] ==
        IF n = 0 THEN 0
        ELSE CHOOSE j \in firsts : j > nth[n - 1]
                       /\ \A k \in firsts : k > nth[n - 1] => j <= k
  IN [n \in 1..Cardinality(firsts) |-> found[nth[n]]]

\* extract_quality_images(html), html given by its <img> tags in document
\* order (no tag: the empty list of lines 96-97 or of an HTML without images).
ExtractQualityImages(imgs) == Unique(QualityScan(imgs, 1, <<>>))

\* ------------------------------------------------------------- parse_offer
Min(a, b) == IF a <= b THEN a ELSE b

\* all_images[:5]   (line 368)
PhotoLimit == 5

Digit(n) ==
  CASE n = 1 -> "1" [] n = 2 -> "2" [] n = 3 -> "3" [] n = 4 -> "4"
    [] n = 5 -> "5" [] n = 6 -> "6" [] n = 7 -> "7" [] n = 8 -> "8"
    [] OTHER -> "9"

\* f"https://drive.google.com/uc?id={file['id']}" (lines 216, 316), as the
\* fragments of its text; the file made for the n-th attachment has id a<n>,
\* the one made for the n-th image of all_images id u<n>.
DriveUrl(id) == <<"https://", "drive.google.com", "/uc?id=", id>>

\* The text of a src attribute, as its fragments.
SrcText(src) ==
  <<src.scheme>> \o src.url.host \o src.url.path
    \o (IF src.url.query = <<>> THEN <<>> ELSE <<"?">> \o src.url.query)

\* 'drive.google.com' in img_url   (line 369)
InDrive(text) == \E i \in Idx(text) : text[i] = "drive.google.com"

\* Lines 355-360 from attachment i on; atts[i] tells whether
\* upload_attachment_to_drive returns a URL for it or "".
RECURSIVE AttachmentScan(_, _, _)
AttachmentScan(atts, i, out) ==
  IF i > Len(atts) THEN out
  ELSE IF atts[i] THEN AttachmentScan(atts, i + 1,
                                      Append(out, DriveUrl("a" \o Digit(i))))
  ELSE AttachmentScan(atts, i + 1, out)

\* Lines 368-380 from image i on; upfail holds the positions at which
\* upload_image_to_drive returns "".
RECURSIVE PhotoScan(_, _, _, _)
PhotoScan(all, i, upfail, out) ==
  IF i > Len(all) \/ i > PhotoLimit THEN out
  ELSE IF InDrive(all[i]) THEN PhotoScan(all, i + 1, upfail, Append(out, all[i]))
  ELSE IF i \in upfail THEN PhotoScan(all, i + 1, upfail, Append(out, all[i]))
  ELSE PhotoScan(all, i + 1, upfail, Append(out, DriveUrl("u" \o Digit(i))))

\* ','.join(urls)   (line 386), as the fragments of the joined text.
RECURSIVE Join(_)
Join(urls) ==
  IF urls = <<>> THEN <<>>
  ELSE IF Len(urls) = 1 THEN urls[1]
  ELSE urls[1] \o <<",">> \o Join(Tail(urls))

\* parse_offer(email, creds): the image fields of its result (lines
\* 351-407), with attachment_images, inline_images and all_photo_urls.
ParseOffer(atts, imgs, upfail) ==
  LET inline_images ==
        [j \in Idx(ExtractQualityImages(imgs)) |->
           SrcText(ExtractQualityImages(imgs)[j])]
      attachment_images == AttachmentScan(atts, 1, <<>>)
      all_images == attachment_images \o inline_images
      all_photo_urls == PhotoScan(all_images, 1, upfail, <<>>)
  IN [attachment_images |-> attachment_images,
      inline_images |-> inline_images,
      all_photo_urls |-> all_photo_urls,
      photo |-> IF all_photo_urls # <<>> THEN all_photo_urls[1] ELSE <<>>,
      photos |-> IF all_photo_urls # <<>> THEN Join(all_photo_urls) ELSE <<>>,
      photo_count |-> Len(all_photo_urls),
      had_attachments |-> Len(attachment_images) > 0,
      quality_images_found |-> Len(all_images)]

\* ------------------------------------------------------------------- state
VARIABLES
  folder,     \* email_dir: the bytes of its .eml files, in glob order
  disk,       \* hash_file: [ok |-> it holds valid JSON, ids |-> the identities in it]
  imageDir,   \* image_dir: the set of [name, data] files in it
  artifacts,  \* the offers_*.json files written so far, oldest first
  runs,       \* runs started so far
  pc,         \* "idle", "loop", or how the last run ended: "uptodate",
              \* "written", "fatal" (process() raised), "loadfail",
              \* "crashed" (the process was killed in the loop)
  seen,       \* self.seen
  files,      \* process(): files
  idx,        \* process(): position of the for loop in files
  latest,     \* process(): latest, a dict in insertion order: <<[key, offer], ...>>
  count,      \* process(): new_offers_count
  trace,      \* history: what became of each file examined in this run
  built,      \* history: per identity, the offer candidates built from it so far
  start,      \* history: hash_file and the number of artifacts when this run began
  prev,       \* history: the files and the trace of the run before this one
  faults,     \* exceptions the environment has raised so far
  probe,      \* the last call of a helper function made on its own: its
              \* name, arguments and result
  companies,  \* Airtable: the records of the Company table, oldest first
  calls,      \* Airtable: the records of the Calls table, oldest first
  reqs        \* the API requests: for each, its handler, the name it
              \* carries, where the handler stands, its local `company`
              \* (a record id, 0 for None), the status of its response

vars == <<folder, disk, imageDir, artifacts, runs, pc, seen, files, idx, latest,
          count, trace, built, start, prev, faults, probe, companies, calls,
          reqs>>

\* The state of the API and of its Airtable base.
apiVars == <<companies, calls, reqs>>

\* The state of the pipeline.
pipeVars == <<folder, disk, imageDir, artifacts, runs, pc, seen, files, idx,
              latest, count, trace, built, start, prev, faults>>

\* Every identity a file of the folder can have.
Ids == {MsgId(b) : b \in RawBytes}

\* body = self._body(msg)   (line 199), for the message of each file.
BodyOf == [bytes \in RawBytes |-> Body(Parse(bytes).parts)]

\* category = self._cat(subj, body)   (line 204), for the i-th file of the
\* folder holding each message.
CatOf ==
  [i \in 1..MaxFiles, bytes \in RawBytes |-> Cat(Subj(i, bytes), BodyOf[bytes])]

\* ------------------------------------------------------- the image folder
\* filepath.write_bytes(img_data): creates or overwrites the file `name`.
WriteImg(dir, name, data) ==
  {e \in dir : e.name # name} \cup {[name |-> name, data |-> data]}

\* _save_imgs that passes over image parts sent as attachment and puts each
\* new filename at the head of saved_images.
RECURSIVE SaveImgsFrom_InlineNewestFirst(_, _, _, _, _)
SaveImgsFrom_InlineNewestFirst(parts, i, oserr, dir, saved) ==
  IF i > Len(parts) THEN [names |-> saved, dir |-> dir]
  ELSE IF parts[i].maintype # "image" \/ parts[i].attach
    THEN SaveImgsFrom_InlineNewestFirst(parts, i + 1, oserr, dir, saved)
  ELSE IF parts[i].data = 0
    THEN SaveImgsFrom_InlineNewestFirst(parts, i + 1, oserr, dir, saved)
  ELSE IF i \in oserr
    THEN SaveImgsFrom_InlineNewestFirst(parts, i + 1, oserr, dir, saved)
  ELSE SaveImgsFrom_InlineNewestFirst(parts, i + 1, oserr,
                    WriteImg(dir, ImgName(parts[i]), parts[i].data),
                    <<ImgName(parts[i])>> \o saved)

\* EmailOfferPipeline._save_imgs from part i on; oserr holds the positions
\* whose write_bytes raises OSError (caught and logged, lines 158-162).
RECURSIVE SaveImgsFrom(_, _, _, _, _)
SaveImgsFrom(parts, i, oserr, dir, saved) ==
  IF i > Len(parts) THEN [names |-> saved, dir |-> dir]
  ELSE IF parts[i].maintype # "image"
    THEN SaveImgsFrom(parts, i + 1, oserr, dir, saved)
  ELSE IF parts[i].data = 0 THEN SaveImgsFrom(parts, i + 1, oserr, dir, saved)
  ELSE IF i \in oserr THEN SaveImgsFrom(parts, i + 1, oserr, dir, saved)
  ELSE SaveImgsFrom(parts, i + 1, oserr,
                    WriteImg(dir, ImgName(parts[i]), parts[i].data),
                    Append(saved, ImgName(parts[i])))

\* EmailOfferPipeline._save_imgs
SaveImgs(parts, oserr, dir) == SaveImgsFrom(parts, 1, oserr, dir, <<>>)

\* ------------------------------------------------------------- the offers
\* primary_image=imgs[0] if imgs else ''   (line 209)
PrimaryImage(imgs) == IF imgs # <<>> THEN imgs[1] ELSE ""

\* more_images=imgs[1:] if len(imgs) > 1 else []   (line 210)
MoreImages(imgs) == IF Len(imgs) > 1 THEN Tail(imgs) ELSE <<>>

\* asdict(ProductOffer(...)) of lines 202-214: the fields the dedup, the
\* ledger, the image list, the body and the category decide.
Offer(i, bytes, imgs) ==
  [title |-> Subj(i, bytes),
   category |-> CatOf[i, bytes],
   product_description |-> BodyOf[bytes],
   date_received |-> Parse(bytes).date,
   message_id |-> MsgId(bytes),
   primary_image |-> PrimaryImage(imgs),
   more_images |-> MoreImages(imgs)]

\* latest.get(key): the position of key in the dict, 0 for None.
LatestPos(d, key) ==
  IF \E j \in Idx(d) : d[j].key = key
  THEN CHOOSE j \in Idx(d) : d[j].key = key ELSE 0

\* latest[key] = offer done as del latest[key] followed by an insertion: a
\* replaced key moves to the end.
LatestPut_MoveToEnd(d, key, offer) ==
  Append(SelectSeq(d, LAMBDA e : e.key # key), [key |-> key, offer |-> offer])

\* latest[key] = offer: a new key goes last, a known key keeps its place.
LatestPut(d, key, offer) ==
  IF LatestPos(d, key) = 0 THEN Append(d, [key |-> key, offer |-> offer])
  ELSE [d EXCEPT ![LatestPos(d, key)] = [key |-> key, offer |-> offer]]

\* Lines 216-218 with the date test left out: the last candidate of a key
\* replaces the retained one.
Resolve_LastWins(d, key, offer) == LatestPut(d, key, offer)

\* Lines 216-218 with >= for >: a candidate as late as the retained offer
\* replaces it.
Resolve_TieReplaces(d, key, offer) ==
  IF LatestPos(d, key) = 0
     \/ AsDt(offer.date_received) >= AsDt(d[LatestPos(d, key)].offer.date_received)
  THEN LatestPut(d, key, offer) ELSE d

\* Lines 216-218: keep the candidate if its key is new or its date is
\* strictly later than the retained offer's.
Resolve(d, key, offer) ==
  IF LatestPos(d, key) = 0
     \/ AsDt(offer.date_received) > AsDt(d[LatestPos(d, key)].offer.date_received)
  THEN LatestPut(d, key, offer) ELSE d

\* list(latest.values())
Values(d) == [j \in Idx(d) |-> d[j].offer]

\* ------------------------------------------------------------ api/index.py
\* The company names requests carry.
Names == {"Acme", "ACME", "Bolt"}

\* LOWER() of the filterByFormula of line 140.
NameLower(name) ==
  CASE name = "Acme" -> "acme" [] name = "ACME" -> "acme"
    [] name = "Bolt" -> "bolt" [] OTHER -> name

\* A request slot no request has used yet.
NoRequest ==
  [handler |-> "none", name |-> "", at |-> "idle", company |-> 0,
   status |-> 0, created |-> FALSE]

\* The records of the Company table whose name equals `name` without
\* regard to case (line 140).
Matching(table, name) ==
  {i \in Idx(table) : NameLower(table[i].name) = NameLower(name)}

\* data["records"][0] of lines 145-147: the id of the first matching
\* record, 0 (None) when there is none.
FirstMatch(table, name) ==
  IF Matching(table, name) = {} THEN 0
  ELSE table[CHOOSE i \in Matching(table, name) :
               \A k \in Matching(table, name) : i <= k].id

\* ------------------------------------------------------------------ actions
Init ==
  /\ folder = <<>>
  /\ disk = [ok |-> TRUE, ids |-> {}]
  /\ imageDir = {}
  /\ artifacts = <<>>
  /\ runs = 0
  /\ pc = "idle"
  /\ seen = {}
  /\ files = <<>>
  /\ idx = 1
  /\ latest = <<>>
  /\ count = 0
  /\ trace = <<>>
  /\ built = [m \in Ids |-> 0]
  /\ start = [disk |-> [ok |-> TRUE, ids |-> {}], nart |-> 0]
  /\ prev = [ran |-> FALSE, files |-> <<>>, trace |-> <<>>, end |-> "idle"]
  /\ faults = 0
  /\ probe = [fn |-> "none"]
  /\ companies = <<>>
  /\ calls = <<>>
  /\ reqs = [r \in 1..MaxReqs |-> NoRequest]

\* A new .eml file appears in the folder before a run.  The files of the
\* folder differ in content; two files of one identity are 1 and 5.
AddFile(bytes) ==
  /\ pc # "loop"
  /\ runs < MaxRuns
  /\ Len(folder) < MaxFiles
  /\ \A i \in Idx(folder) : folder[i] # bytes
  /\ folder' = Append(folder, bytes)
  /\ UNCHANGED <<apiVars, probe, disk, imageDir, artifacts, runs, pc, seen, files, idx, latest,
                 count, trace, built, start, prev, faults>>

\* __main__: EmailOfferPipeline() loads the ledger (_load_hashes), process()
\* lists the folder and starts its loop (lines 64-70, 181-185).
StartRun ==
  /\ pc # "loop"
  /\ runs < MaxRuns
  /\ disk.ok
  /\ runs' = runs + 1
  /\ seen' = disk.ids
  /\ files' = folder
  /\ idx' = 1
  /\ latest' = <<>>
  /\ count' = 0
  /\ trace' = <<>>
  /\ pc' = "loop"
  /\ start' = [disk |-> disk, nart |-> Len(artifacts)]
  /\ prev' = [ran |-> runs > 0, files |-> files, trace |-> trace, end |-> pc]
  /\ UNCHANGED <<apiVars, probe, folder, disk, imageDir, artifacts, built, faults>>

\* __main__: json.loads raises in _load_hashes on a ledger file that is not
\* valid JSON; the except of lines 238-240 logs it and exits.
LoadFail ==
  /\ pc # "loop"
  /\ runs < MaxRuns
  /\ ~disk.ok
  /\ runs' = runs + 1
  /\ pc' = "loadfail"
  /\ UNCHANGED <<apiVars, probe, folder, disk, imageDir, artifacts, seen, files, idx, latest,
                 count, trace, built, start, prev, faults>>

InLoop == pc = "loop" /\ idx <= Len(files)

\* The environment raises one more exception.
Fault == faults < MaxFaults /\ faults' = faults + 1

Note(st, cand) == Append(trace, [st |-> st, cand |-> cand])

\* The try of line 187 opened outside the for loop: the first exception ends
\* the loop and the remaining files are not examined.
FailRead_EndsLoop ==
  /\ InLoop
  /\ Fault
  /\ idx' = Len(files) + 1
  /\ trace' = Note("Failed", FALSE)
  /\ UNCHANGED <<apiVars, probe, folder, disk, imageDir, artifacts, runs, pc, seen, files,
                 latest, count, built, start, prev>>

\* Lines 188-191 raise (the file cannot be opened or read): the except of
\* line 224 logs it and the loop goes on.
FailRead ==
  /\ InLoop
  /\ Fault
  /\ idx' = idx + 1
  /\ trace' = Note("Failed", FALSE)
  /\ UNCHANGED <<apiVars, probe, folder, disk, imageDir, artifacts, runs, pc, seen, files,
                 latest, count, built, start, prev>>

\* Lines 192-193 moved below line 200: the images of a seen message are
\* saved before it is skipped.
SkipSeen_AfterImgs ==
  /\ InLoop
  /\ MsgId(files[idx]) \in seen
  /\ imageDir' = SaveImgs(Parse(files[idx]).imgs, {}, imageDir).dir
  /\ idx' = idx + 1
  /\ trace' = Note("SkippedAsSeen", FALSE)
  /\ UNCHANGED <<apiVars, probe, folder, disk, artifacts, runs, pc, seen, files, latest, count,
                 built, start, prev, faults>>

\* Lines 192-193: the identity is in self.seen, continue.
SkipSeen ==
  /\ InLoop
  /\ MsgId(files[idx]) \in seen
  /\ idx' = idx + 1
  /\ trace' = Note("SkippedAsSeen", FALSE)
  /\ UNCHANGED <<apiVars, probe, folder, disk, imageDir, artifacts, runs, pc, seen, files,
                 latest, count, built, start, prev, faults>>

\* Lines 195-214 raise after _save_imgs has written the first k images of
\* the message: the except of line 224 logs it and the loop goes on.
FailDecode(k) ==
  /\ InLoop
  /\ Fault
  /\ MsgId(files[idx]) \notin seen
  /\ k \in 0..Len(Parse(files[idx]).imgs)
  /\ imageDir' = SaveImgs(SubSeq(Parse(files[idx]).imgs, 1, k), {}, imageDir).dir
  /\ idx' = idx + 1
  /\ trace' = Note("Failed", FALSE)
  /\ UNCHANGED <<apiVars, probe, folder, disk, artifacts, runs, pc, seen, files, latest, count,
                 built, start, prev>>

\* Lines 195-222 with _save_hash called only for the message that became the
\* retained offer of its key.
ProcessOk_WinnersOnly(oserr) ==
  /\ InLoop
  /\ MsgId(files[idx]) \notin seen
  /\ oserr \in SUBSET Idx(Parse(files[idx]).imgs)
  /\ LET b == files[idx]
         r == SaveImgs(Parse(b).imgs, oserr, imageDir)
         offer == Offer(idx, b, r.names)
         won == Resolve(latest, CleanSubj(offer.title), offer) # latest
     IN /\ imageDir' = r.dir
        /\ latest' = Resolve(latest, CleanSubj(offer.title), offer)
        /\ seen' = IF won THEN seen \cup {MsgId(b)} ELSE seen
        /\ disk' = IF won THEN [ok |-> TRUE, ids |-> seen \cup {MsgId(b)}] ELSE disk
        /\ built' = [built EXCEPT ![MsgId(b)] = @ + 1]
  /\ count' = count + 1
  /\ idx' = idx + 1
  /\ trace' = Note("CandidateBuilt", TRUE)
  /\ UNCHANGED <<apiVars, probe, folder, artifacts, runs, pc, files, start, prev, faults>>

\* Lines 195-222 with a _save_hash that adds to self.seen and does not write
\* the ledger file.
ProcessOk_NoPersist(oserr) ==
  /\ InLoop
  /\ MsgId(files[idx]) \notin seen
  /\ oserr \in SUBSET Idx(Parse(files[idx]).imgs)
  /\ LET b == files[idx]
         r == SaveImgs(Parse(b).imgs, oserr, imageDir)
         offer == Offer(idx, b, r.names)
     IN /\ imageDir' = r.dir
        /\ latest' = Resolve(latest, CleanSubj(offer.title), offer)
        /\ seen' = seen \cup {MsgId(b)}
        /\ built' = [built EXCEPT ![MsgId(b)] = @ + 1]
  /\ count' = count + 1
  /\ idx' = idx + 1
  /\ trace' = Note("CandidateBuilt", TRUE)
  /\ UNCHANGED <<apiVars, probe, folder, disk, artifacts, runs, pc, files, start, prev, faults>>

\* Lines 195-222 without an exception: the images are saved, the candidate
\* is built and resolved against its group, the identity is added to the
\* ledger and the ledger is written (_save_hash).
ProcessOk(oserr) ==
  /\ InLoop
  /\ MsgId(files[idx]) \notin seen
  /\ oserr \in SUBSET Idx(Parse(files[idx]).imgs)
  /\ LET b == files[idx]
         r == SaveImgs(Parse(b).imgs, oserr, imageDir)
         offer == Offer(idx, b, r.names)
     IN /\ imageDir' = r.dir
        /\ latest' = Resolve(latest, CleanSubj(offer.title), offer)
        /\ seen' = seen \cup {MsgId(b)}
        /\ disk' = [ok |-> TRUE, ids |-> seen \cup {MsgId(b)}]
        /\ built' = [built EXCEPT ![MsgId(b)] = @ + 1]
  /\ count' = count + 1
  /\ idx' = idx + 1
  /\ trace' = Note("CandidateBuilt", TRUE)
  /\ UNCHANGED <<apiVars, probe, folder, artifacts, runs, pc, files, start, prev, faults>>

\* Lines 195-220 where write_text raises in _save_hash: the candidate is in
\* latest and the identity in self.seen already; the file is untouched when
\* it cannot be opened, and cut short when the write itself fails.  The
\* except of line 224 logs a failure of the message and the loop goes on.
FailSaveHash(oserr, cut) ==
  /\ InLoop
  /\ Fault
  /\ MsgId(files[idx]) \notin seen
  /\ oserr \in SUBSET Idx(Parse(files[idx]).imgs)
  /\ cut \in BOOLEAN
  /\ LET b == files[idx]
         r == SaveImgs(Parse(b).imgs, oserr, imageDir)
         offer == Offer(idx, b, r.names)
     IN /\ imageDir' = r.dir
        /\ latest' = Resolve(latest, CleanSubj(offer.title), offer)
        /\ seen' = seen \cup {MsgId(b)}
        /\ built' = [built EXCEPT ![MsgId(b)] = @ + 1]
  /\ disk' = IF cut THEN [ok |-> FALSE, ids |-> {}] ELSE disk
  /\ idx' = idx + 1
  /\ trace' = Note("Failed", TRUE)
  /\ UNCHANGED <<apiVars, probe, folder, artifacts, runs, pc, count, files, start, prev>>

AtEnd == pc = "loop" /\ idx > Len(files)

\* Lines 227-229 left out: an empty latest is written as an empty artifact.
NoNewOffers_WritesEmpty ==
  /\ AtEnd
  /\ latest = <<>>
  /\ artifacts' = Append(artifacts, Values(latest))
  /\ pc' = "written"
  /\ UNCHANGED <<apiVars, probe, folder, disk, imageDir, runs, seen, files, idx, latest, count,
                 trace, built, start, prev, faults>>

\* Lines 227-229: nothing in latest, 'No new offers - all up to date.'
NoNewOffers ==
  /\ AtEnd
  /\ latest = <<>>
  /\ pc' = "uptodate"
  /\ UNCHANGED <<apiVars, probe, folder, disk, imageDir, artifacts, runs, seen, files, idx,
                 latest, count, trace, built, start, prev, faults>>

\* Lines 231-233: the offers of latest are written to a new artifact.
WriteArtifact ==
  /\ AtEnd
  /\ latest # <<>>
  /\ artifacts' = Append(artifacts, Values(latest))
  /\ pc' = "written"
  /\ UNCHANGED <<apiVars, probe, folder, disk, imageDir, runs, seen, files, idx, latest, count,
                 trace, built, start, prev, faults>>

\* Line 232 raises: process() ends with the exception, __main__ logs it
\* and exits with status 1 (lines 238-240).
WriteArtifactFail ==
  /\ AtEnd
  /\ latest # <<>>
  /\ Fault
  /\ pc' = "fatal"
  /\ UNCHANGED <<apiVars, probe, folder, disk, imageDir, artifacts, runs, seen, files, idx,
                 latest, count, trace, built, start, prev>>

Next ==
  \/ \E b \in RawBytes : AddFile(b)
  \/ StartRun
  \/ LoadFail
  \/ FailRead
  \/ SkipSeen
  \/ \E k \in 0..1 : FailDecode(k)
  \/ \E o \in SUBSET {1} : ProcessOk(o)
  \/ \E o \in SUBSET {1}, c \in BOOLEAN : FailSaveHash(o, c)
  \/ NoNewOffers
  \/ WriteArtifact
  \/ WriteArtifactFail

Spec == Init /\ [][Next]_vars

\* One step of a started run: an iteration of the loop or the end of
\* process().
RunStep ==
  \/ FailRead
  \/ SkipSeen
  \/ \E k \in 0..1 : FailDecode(k)
  \/ \E o \in SUBSET {1} : ProcessOk(o)
  \/ \E o \in SUBSET {1}, c \in BOOLEAN : FailSaveHash(o, c)
  \/ NoNewOffers
  \/ WriteArtifact
  \/ WriteArtifactFail

\* A started run keeps executing: its steps are weakly fair.
FairSpec == Spec /\ WF_vars(RunStep)

\* The process is killed between two iterations of the loop: what is in
\* memory is gone, the files stay as they are.
Crash ==
  /\ InLoop
  /\ Fault
  /\ pc' = "crashed"
  /\ UNCHANGED <<apiVars, probe, folder, disk, imageDir, artifacts, runs, seen, files, idx,
                 latest, count, trace, built, start, prev>>

\* The process is killed inside hash_file.write_text (line 91), which opens
\* the ledger file for writing in place: killed before the open the file is
\* as it was (torn = FALSE); killed after it the file is empty or holds the
\* beginning of the new list, which is not valid JSON (torn = TRUE).
CrashInSaveHash(oserr, torn) ==
  /\ InLoop
  /\ Fault
  /\ MsgId(files[idx]) \notin seen
  /\ oserr \in SUBSET Idx(Parse(files[idx]).imgs)
  /\ torn \in BOOLEAN
  /\ imageDir' = SaveImgs(Parse(files[idx]).imgs, oserr, imageDir).dir
  /\ disk' = IF torn THEN [ok |-> FALSE, ids |-> {}] ELSE disk
  /\ pc' = "crashed"
  /\ UNCHANGED <<apiVars, probe, folder, artifacts, runs, seen, files, idx, latest, count,
                 trace, built, start, prev>>

\* A copy of a file of the folder appears in it under another name.
AddCopy(i) ==
  /\ pc # "loop"
  /\ runs < MaxRuns
  /\ Len(folder) < MaxFiles
  /\ i \in Idx(folder)
  /\ folder' = Append(folder, folder[i])
  /\ UNCHANGED <<apiVars, probe, disk, imageDir, artifacts, runs, pc, seen, files, idx, latest,
                 count, trace, built, start, prev, faults>>

\* The pipeline on a folder that may hold copies of a file.
NextOrCopy ==
  \/ Next
  \/ \E i \in 1..MaxFiles : AddCopy(i)

CopySpec == Init /\ [][NextOrCopy]_vars

\* The image URLs and <img> tags is_tracking_pixel is called on.
Hosts == {<<"example.com">>, <<"cdn.shop.com">>, <<"doubleclick">>}
Paths ==
  {<<>>, <<"/img/", "photo", ".jpg">>, <<"/img/", "Photo", ".png">>,
   <<"/img/", "Pixel.GIF">>, <<"/track/", "tile", ".jpg">>,
   <<"/img/", "photo", ".JSP">>, <<"/img/", ".php", "photo", ".jpg">>}
Queries == {<<>>, <<"id=7">>, <<"utm_", "id=7">>, <<".php">>}
Urls == {Url(h, p, q) : h \in Hosts, p \in Paths, q \in Queries}
Tags == {NoTag} \cup {Tag(w, h) : w \in DimAttrs, h \in DimAttrs}

\* The subjects and bodies _cat is called on: a subject of the folder's
\* messages or a file stem, and up to two words of body text.
CatSubjects ==
  {<<"Offer:", " ", "SPC">>, <<"RE:", " ", "Tile">>, <<"Quote", "1">>,
   <<"Offer:", " ", "Solid">>}
BodyWords ==
  {"SPC", "LVT", "Laminate", "tile", "Textile", "Solid", "Hardwood", "Oak"}
CatBodies ==
  {<<>>} \cup {<<w>> : w \in BodyWords}
         \cup {<<v, w>> : v \in BodyWords, w \in BodyWords}

\* The parts of the messages _body is called on: text parts with text,
\* without, with markup only, undecodable, sent as attachment; containers.
PartKinds ==
  {Multi,
   Html(<<"<p>", "SPC", "</p>">>), Html(<<"<p>", "Tile", "</p>">>),
   Html(<<>>), Html(<<"<img>">>),
   Part("text/html", FALSE, FALSE, <<>>),
   Part("text/html", TRUE, TRUE, <<"<p>", "LVT", "</p>">>),
   Plain(<<"Laminate">>), Plain(<<"Oak">>), Plain(<<>>),
   Part("text/plain", FALSE, FALSE, <<>>),
   Part("text/plain", TRUE, TRUE, <<"Hardwood">>)}
PartLists == UNION {[1..n -> PartKinds] : n \in 0..MaxParts}

\* No helper call is under way.
Idle == probe.fn = "none"

\* is_tracking_pixel is called on an image.
CallIsTrackingPixel(u, t) ==
  /\ Idle
  /\ probe' = [fn |-> "is_tracking_pixel", url |-> u, tag |-> t,
               out |-> IsTrackingPixel(u, t)]
  /\ UNCHANGED <<pipeVars, apiVars>>

\* _cat is called on a subject and a body.
CallCat(sub, body) ==
  /\ Idle
  /\ probe' = [fn |-> "_cat", sub |-> sub, body |-> body,
               out |-> Cat(sub, body)]
  /\ UNCHANGED <<pipeVars, apiVars>>

\* _body is called on a message; html and plain are html_body and
\* plain_body when its loop has ended.
CallBody(parts) ==
  /\ Idle
  /\ probe' = [fn |-> "_body", parts |-> parts,
               html |-> Candidates(parts).html,
               plain |-> Candidates(parts).plain,
               out |-> Body(parts)]
  /\ UNCHANGED <<pipeVars, apiVars>>

\* The parts _save_imgs is called on: images with a Content-ID, without,
\* sent as attachment, of an unknown type, without payload; a text part.
ImgKinds ==
  {ImgPart("logo", ".png", 11), ImgPart("", ".jpg", 12),
   Attached(ImgPart("photo", ".jpg", 13)), ImgPart("", ".bin", 11),
   ImgPart("", ".jpg", 0), TextPart}
ImgLists == UNION {[1..n -> ImgKinds] : n \in 0..MaxParts}

\* _save_imgs is called on a message and the offer fields of lines 209-210
\* are taken from its result.
CallSaveImgs(parts, oserr) ==
  /\ Idle
  /\ oserr \in SUBSET Idx(parts)
  /\ LET names == SaveImgs(parts, oserr, imageDir).names
     IN probe' = [fn |-> "_save_imgs", parts |-> parts, oserr |-> oserr,
                  out |-> names,
                  primary_image |-> PrimaryImage(names),
                  more_images |-> MoreImages(names)]
  /\ UNCHANGED <<pipeVars, apiVars>>

\* The subjects _clean_subj is called on: whitespace or none in front (a
\* Subject header folded after its name keeps the line break and blank),
\* no, one or two markers, the text in some letter case, whitespace or none
\* at the end.
Leads == {<<>>, <<" ">>}
MarkerRuns ==
  {<<>>, <<"RE:", " ">>, <<"Fwd:">>, <<"fw:", " ", " ">>,
   <<"RE:", " ", "Re:", " ">>, <<"FW:", "fwd:">>}
Cores ==
  {<<"Offer:", " ", "SPC">>, <<"offer:", " ", "spc">>,
   <<"OFFER:", " ", "SPC">>, <<"Tile">>}
Trails == {<<>>, <<" ">>}
Subjects ==
  {l \o m \o c \o t : l \in Leads, m \in MarkerRuns, c \in Cores, t \in Trails}

\* _clean_subj is called on a subject.
CallCleanSubj(sub) ==
  /\ Idle
  /\ probe' = [fn |-> "_clean_subj", sub |-> sub, out |-> CleanSubj(sub)]
  /\ UNCHANGED <<pipeVars, apiVars>>

\* The <img> tags of the HTML extract_quality_images is called on: product
\* photos with and without a product alt text, the same address in several
\* tags, tracking pixels by pattern, domain and dimension, a cid: reference,
\* a tag without src.
PhotoSrc == Src("http://", Url(<<"example.com">>, <<"/img/", "photo", ".jpg">>, <<>>))
FloorSrc == Src("https://", Url(<<"cdn.shop.com">>, <<"/img/", "Photo", ".png">>, <<>>))
BannerSrc == Src("https://", Url(<<"cdn.shop.com">>, <<"/img/", "photo", ".jpg">>, <<"id=7">>))
ImgTags ==
  {Img(PhotoSrc, "400", "", "Product photo"),
   Img(PhotoSrc, "", "", ""),
   Img(PhotoSrc, "10", "10", "stone tile"),
   Img(FloorSrc, "400px", "400", "Floor"),
   Img(FloorSrc, "", "", "logo"),
   Img(BannerSrc, "abc", "", "TEXTILE"),
   Img(BannerSrc, "", "50", "logo"),
   Img(Src("http://", Url(<<"example.com">>, <<"/img/", "Pixel.GIF">>, <<>>)),
       "", "", "Product photo"),
   Img(Src("http://", Url(<<"doubleclick">>, <<"/img/", "photo", ".jpg">>, <<>>)),
       "", "", ""),
   Img(Src("cid:", Url(<<>>, <<"photo", ".jpg">>, <<>>)), "400", "400", "Floor"),
   Img(NoSrc, "", "", "Floor")}
ImgTagLists == UNION {[1..n -> ImgTags] : n \in 0..MaxParts}

\* extract_quality_images is called on an HTML body.
CallExtractQualityImages(imgs) ==
  /\ Idle
  /\ probe' = [fn |-> "extract_quality_images", imgs |-> imgs,
               out |-> ExtractQualityImages(imgs)]
  /\ UNCHANGED <<pipeVars, apiVars>>

\* The emails parse_offer is called on: up to MaxParts image attachments,
\* each uploaded or not, and a body with up to MaxParts <img> tags: a photo
\* on an image CDN whose address holds a comma, a product photo, a logo, a
\* tracking pixel.
CdnSrc ==
  Src("https://", Url(<<"cdn.shop.com">>,
                      <<"/img/", "w_400", ",", "h_300", "/", "photo", ".jpg">>,
                      <<>>))
OfferTags ==
  {Img(CdnSrc, "400", "", ""),
   Img(PhotoSrc, "400", "", "Product photo"),
   Img(BannerSrc, "", "", "logo"),
   Img(FloorSrc, "10", "10", "Floor")}
OfferTagLists == UNION {[1..n -> OfferTags] : n \in 0..MaxParts}
UploadLists == UNION {[1..n -> BOOLEAN] : n \in 0..MaxParts}

\* The positions of all_images[:5] that hold an inline image.
InlineAt(atts, imgs) ==
  LET natt == Cardinality({i \in Idx(atts) : atts[i]})
  IN (natt + 1)..Min(PhotoLimit, natt + Len(ExtractQualityImages(imgs)))

\* parse_offer is called on an email; upfail holds the positions of
\* all_images whose inline upload fails.
CallParseOffer(atts, imgs, upfail) ==
  /\ Idle
  /\ upfail \subseteq InlineAt(atts, imgs)
  /\ probe' = [fn |-> "parse_offer", atts |-> atts, imgs |-> imgs,
               upfail |-> upfail, out |-> ParseOffer(atts, imgs, upfail)]
  /\ UNCHANGED <<pipeVars, apiVars>>

\* The caller has used the result of the call.
Return ==
  /\ ~Idle
  /\ probe' = [fn |-> "none"]
  /\ UNCHANGED <<pipeVars, apiVars>>

\* The helper functions called on their own.
NextCall ==
  \/ /\ Idle
     /\ \/ \E u \in Urls, t \in Tags : CallIsTrackingPixel(u, t)
        \/ \E sub \in CatSubjects, body \in CatBodies : CallCat(sub, body)
        \/ \E parts \in PartLists : CallBody(parts)
        \/ \E parts \in ImgLists, oserr \in SUBSET (1..MaxParts) :
              CallSaveImgs(parts, oserr)
        \/ \E sub \in Subjects : CallCleanSubj(sub)
        \/ \E imgs \in ImgTagLists : CallExtractQualityImages(imgs)
        \/ \E atts \in UploadLists, imgs \in OfferTagLists :
              \E upfail \in SUBSET InlineAt(atts, imgs) :
                CallParseOffer(atts, imgs, upfail)
  \/ Return

CallSpec == Init /\ [][NextCall]_vars

\* The pipeline in an environment that may kill the process.
NextOrCrash ==
  \/ Next
  \/ Crash
  \/ \E o \in SUBSET {1}, t \in BOOLEAN : CrashInSaveHash(o, t)

CrashSpec == Init /\ [][NextOrCrash]_vars

\* --------------------------------------------------------- the API requests
\* POST /companies arrives with a name: create_company awaits
\* find_company_by_name (line 199).
PostCompanies(r, name) ==
  /\ reqs[r].at = "idle"
  /\ reqs' = [reqs EXCEPT ![r] = [NoRequest EXCEPT !.handler = "create_company",
                                                   !.name = name, !.at = "find"]]
  /\ UNCHANGED <<pipeVars, probe, companies, calls>>

\* POST /calls arrives with a company name: create_call awaits
\* find_company_by_name (line 270).
PostCalls(r, name) ==
  /\ reqs[r].at = "idle"
  /\ reqs' = [reqs EXCEPT ![r] = [NoRequest EXCEPT !.handler = "create_call",
                                                   !.name = name, !.at = "find"]]
  /\ UNCHANGED <<pipeVars, probe, companies, calls>>

\* find_company_by_name: Airtable answers the GET with the matching
\* records; the handler resumes with the first of them or None.
FindCompanyByName(r) ==
  /\ reqs[r].at = "find"
  /\ reqs' = [reqs EXCEPT ![r].company = FirstMatch(companies, reqs[r].name),
                          ![r].at = "found"]
  /\ UNCHANGED <<pipeVars, probe, companies, calls>>

\* find_company_by_name: the GET raises (network error, HTTP error status);
\* the except of lines 148-150 logs it and returns None.
FindCompanyByNameFail(r) ==
  /\ reqs[r].at = "find"
  /\ reqs' = [reqs EXCEPT ![r].company = 0, ![r].at = "found"]
  /\ UNCHANGED <<pipeVars, probe, companies, calls>>

\* create_company, lines 200-204: a company was found, 409 Conflict.
Conflict(r) ==
  /\ reqs[r].handler = "create_company"
  /\ reqs[r].at = "found"
  /\ reqs[r].company # 0
  /\ reqs' = [reqs EXCEPT ![r].at = "done", ![r].status = 409]
  /\ UNCHANGED <<pipeVars, probe, companies, calls>>

\* create_company, lines 205-232: none was found; create_company_in_airtable
\* posts the record and the response is the created company.
CreateCompany(r) ==
  /\ reqs[r].handler = "create_company"
  /\ reqs[r].at = "found"
  /\ reqs[r].company = 0
  /\ companies' = Append(companies, [id |-> Len(companies) + 1,
                                      name |-> reqs[r].name])
  /\ reqs' = [reqs EXCEPT ![r].at = "done", ![r].status = 200,
                          ![r].company = Len(companies) + 1,
                          ![r].created = TRUE]
  /\ UNCHANGED <<pipeVars, probe, calls>>

\* create_company_in_airtable raises: 500 (lines 162-167), for either
\* handler.
CreateCompanyFail(r) ==
  /\ reqs[r].at = "found"
  /\ reqs[r].company = 0
  /\ reqs' = [reqs EXCEPT ![r].at = "done", ![r].status = 500]
  /\ UNCHANGED <<pipeVars, probe, companies, calls>>

\* create_call, lines 271-273: no company was found, one is created with
\* the name of the call.
CreateCompanyForCall(r) ==
  /\ reqs[r].handler = "create_call"
  /\ reqs[r].at = "found"
  /\ reqs[r].company = 0
  /\ companies' = Append(companies, [id |-> Len(companies) + 1,
                                      name |-> reqs[r].name])
  /\ reqs' = [reqs EXCEPT ![r].company = Len(companies) + 1,
                          ![r].created = TRUE]
  /\ UNCHANGED <<pipeVars, probe, calls>>

\* create_call, lines 274-314: the call is posted with Lead = the id of the
\* company found or created.
CreateCall(r) ==
  /\ reqs[r].handler = "create_call"
  /\ reqs[r].at = "found"
  /\ reqs[r].company # 0
  /\ calls' = Append(calls, [id |-> Len(calls) + 1, lead |-> reqs[r].company,
                              company_name |-> reqs[r].name])
  /\ reqs' = [reqs EXCEPT ![r].at = "done", ![r].status = 200]
  /\ UNCHANGED <<pipeVars, probe, companies>>

\* create_call, lines 315-320: the POST of the call raises, 500.
CreateCallFail(r) ==
  /\ reqs[r].handler = "create_call"
  /\ reqs[r].at = "found"
  /\ reqs[r].company # 0
  /\ reqs' = [reqs EXCEPT ![r].at = "done", ![r].status = 500]
  /\ UNCHANGED <<pipeVars, probe, companies, calls>>

\* The API serving up to MaxReqs requests, their handlers interleaved at
\* every await.
NextApi ==
  \E r \in 1..MaxReqs :
    \/ \E name \in Names : PostCompanies(r, name)
    \/ \E name \in Names : PostCalls(r, name)
    \/ FindCompanyByName(r)
    \/ FindCompanyByNameFail(r)
    \/ Conflict(r)
    \/ CreateCompany(r)
    \/ CreateCompanyFail(r)
    \/ CreateCompanyForCall(r)
    \/ CreateCall(r)
    \/ CreateCallFail(r)

ApiSpec == Init /\ [][NextApi]_vars

\* ----------------------------------------------------- what the claims use
\* The files of this run whose offer candidate was built (lines 202-218 ran).
Cands == {i \in Idx(trace) : trace[i].cand}

\* The DedupGroupKey and the parsed timestamp of the i-th file of this run.
KeyOf(i) == CleanSubj(Subj(i, files[i]))
DtOf(i) == AsDt(Parse(files[i]).date)

\* The artifact the run has just written.
LastArtifact == artifacts[Len(artifacts)]

\* The loop has just finished an iteration.
Iterated == pc = "loop" /\ Len(trace') = Len(trace) + 1
Outcome == trace'[Len(trace')]

\* process() has returned or raised.
RunOver == pc \in {"uptodate", "written", "fatal"}

\* C1: in the artifact of a run every DedupGroupKey of a message whose
\* candidate was built in the run has exactly one offer, and that offer is
\* the one of a message of the key whose parsed Date is the latest among them.
C1_LatestPerKey ==
  pc = "written" =>
    LET key == [i \in Idx(trace) |-> KeyOf(i)]
        dt == [i \in Idx(trace) |-> DtOf(i)]
        akey == [j \in Idx(LastArtifact) |-> CleanSubj(LastArtifact[j].title)]
    IN \A i \in Cands :
         LET hits == {j \in Idx(LastArtifact) : akey[j] = key[i]}
         IN /\ Cardinality(hits) = 1
            /\ \A j \in hits :
                 \E w \in Cands :
                   /\ key[w] = key[i]
                   /\ LastArtifact[j].message_id = MsgId(files[w])
                   /\ LastArtifact[j].date_received = Parse(files[w]).date
                   /\ \A u \in Cands : key[u] = key[i] => dt[u] <= dt[w]

\* C1 witness: a run wrote its artifact after building, for one key, an
\* earlier-dated candidate after a later-dated one and the other way round.
C1_Witness ==
  /\ pc = "written"
  /\ \E i, j, k \in Cands :
       /\ i < j /\ j < k
       /\ KeyOf(i) = KeyOf(j) /\ KeyOf(j) = KeyOf(k)
       /\ DtOf(i) < DtOf(j) /\ DtOf(k) < DtOf(j)

\* The run before this one and this one had the same files to process.
SameSourceSet == prev.ran /\ files = prev.files

C3_SkipRule ==
  [][(Iterated /\ MsgId(files[idx]) \in seen) =>
       /\ imageDir' = imageDir
       /\ latest' = latest
       /\ built' = built
       /\ seen' = seen
       /\ disk' = disk
       /\ ~Outcome.cand]_vars

\* C3 witness: a message with an image part was skipped because another
\* file, of other content, had put its identity in the ledger, while the
\* image folder does not hold what saving its images would leave there.
C3_Witness ==
  \E i \in Idx(trace), j \in Idx(files) :
    /\ trace[i].st = "SkippedAsSeen"
    /\ files[j] # files[i]
    /\ MsgId(files[j]) = MsgId(files[i])
    /\ \E k \in Idx(trace) :
         /\ trace[k].st = "SkippedAsSeen"
         /\ SaveImgs(Parse(files[k]).imgs, {}, imageDir).dir # imageDir

\* C4: an iteration that builds a candidate adds the identity of its message
\* to the ledger in that same iteration, winner or not: the identity was not
\* in the ledger, it is the one identity added, and when the iteration ends
\* without an exception the ledger file holds the in-memory ledger.
C4_LedgerAfterEach ==
  [][(Iterated /\ Outcome.cand) =>
       /\ MsgId(files[idx]) \notin seen
       /\ seen' = seen \cup {MsgId(files[idx])}
       /\ idx' = idx + 1
       /\ (Outcome.st = "CandidateBuilt" =>
             disk' = [ok |-> TRUE, ids |-> seen'])]_vars

\* C4 witness: a message whose candidate lost to the retained offer of its
\* key is in the ledger file while the loop is still running.
C4_Witness ==
  /\ pc = "loop"
  /\ \E i \in Idx(trace) :
       /\ trace[i].st = "CandidateBuilt"
       /\ \A j \in Idx(latest) : latest[j].offer.message_id # MsgId(files[i])
       /\ MsgId(files[i]) \in disk.ids

\* C5: over all runs, no identity is turned into an offer candidate more
\* than once.
C5_AtMostOncePerIdentity == \A m \in Ids : built[m] <= 1

\* C6: an iteration that ends in the except branch (the message Failed)
\* leaves the candidates of the run and the ledger, in memory and on disk,
\* as they were.
C6_FailedIsNoOp ==
  [][(Iterated /\ Outcome.st = "Failed") =>
       /\ latest' = latest
       /\ seen' = seen
       /\ disk' = disk]_vars

\* C7: an iteration in which the ledger write raises (the candidate was
\* built, then _save_hash failed) aborts the run with the failure surfaced.
C7_LedgerFailureIsFatal ==
  [][(Iterated /\ Outcome.cand /\ Outcome.st = "Failed") => pc' = "fatal"]_vars

\* The terminal states of a message.
Terminal == {"SkippedAsSeen", "CandidateBuilt", "Failed"}

\* C8: a run goes through its files one by one, each getting one terminal
\* state, a failed one included, and then ends: the files before idx have
\* their state, a run that is over has one for every file, a running loop
\* can always take its next step, each step either moves to the next file,
\* whatever became of this one, or ends the run after the last file, and a
\* run that has started is eventually over.
C8_EveryMessageTerminal ==
  /\ [](/\ \A i \in Idx(trace) : trace[i].st \in Terminal
        /\ pc = "loop" => (Len(trace) = idx - 1 /\ ENABLED RunStep)
        /\ RunOver => Len(trace) = Len(files))
  /\ [][pc = "loop" =>
          \/ idx <= Len(files) /\ idx' = idx + 1 /\ pc' = "loop"
                /\ Len(trace') = Len(trace) + 1
          \/ idx > Len(files) /\ RunOver' /\ trace' = trace]_vars
  /\ (pc = "loop" ~> RunOver)

\* C8 witness: a run is over in which a message failed and a later message
\* of the source set was processed.
C8_Witness ==
  /\ RunOver
  /\ \E i, j \in Idx(trace) :
       i < j /\ trace[i].st = "Failed" /\ trace[j].st = "CandidateBuilt"

\* C9: a run in which no candidate was built ends as 'no new offers', and
\* neither an artifact nor the ledger file has been written since it began.
C9_NothingBuiltNothingWritten ==
  (RunOver /\ Cands = {}) =>
    /\ pc = "uptodate"
    /\ Len(artifacts) = start.nart
    /\ disk = start.disk

\* C9 witness: a run over a non-empty source set ended with every message
\* skipped as seen.
C9_Witness ==
  /\ pc = "uptodate"
  /\ files # <<>>
  /\ \A i \in Idx(trace) : trace[i].st = "SkippedAsSeen"

\* The keys of the first n files of this run whose candidate was built, in
\* the order of their first appearance.
RECURSIVE KeyOrder(_)
KeyOrder(n) ==
  IF n = 0 THEN <<>>
  ELSE LET ks == KeyOrder(n - 1)
           k == KeyOf(n)
       IN IF trace[n].cand /\ \A j \in Idx(ks) : ks[j] # k
          THEN Append(ks, k) ELSE ks

\* C10: the offers of the artifact are in the order in which their keys
\* first appeared during the scan, replaced keys included.
C10_FirstAppearanceOrder ==
  pc = "written" =>
    [j \in Idx(LastArtifact) |-> CleanSubj(LastArtifact[j].title)]
      = KeyOrder(Len(trace))

\* C10 witness: the artifact was written after the retained offer of a key
\* was replaced by a later-dated message that came after the first message
\* of another key.
C10_Witness ==
  /\ pc = "written"
  /\ \E i, j, k \in Cands :
       /\ i < j /\ j < k
       /\ KeyOf(i) = KeyOf(k) /\ KeyOf(i) # KeyOf(j)
       /\ DtOf(i) < DtOf(k)

\* The retained offer of the key of file i in the artifact just written is
\* the offer of file w.
Retained(i, w) ==
  \E j \in Idx(LastArtifact) :
    /\ CleanSubj(LastArtifact[j].title) = KeyOf(i)
    /\ LastArtifact[j].message_id = MsgId(files[w])
    /\ LastArtifact[j].title = Subj(w, files[w])

\* C11: of two candidates of one run with the same key and the same parsed
\* timestamp (two equal instants, or two missing or unparseable dates), the
\* one encountered later is not the retained offer of the key.
C11_FirstOfTieRetained ==
  pc = "written" =>
    \A i, j \in Cands :
      (i < j /\ KeyOf(i) = KeyOf(j) /\ DtOf(i) = DtOf(j)) => ~Retained(j, j)

\* C11 witness: an artifact holds the first of two candidates of one key
\* whose parseable dates are the same instant.
C11_Witness ==
  /\ pc = "written"
  /\ \E i, j \in Cands :
       /\ i < j /\ KeyOf(i) = KeyOf(j) /\ DtOf(i) = DtOf(j)
       /\ Parse(files[i]).date.kind = "ok" /\ Parse(files[j]).date.kind = "ok"
       /\ Parse(files[i]).date # Parse(files[j]).date
       /\ Retained(i, i)

\* The Date header of file i of this run is missing or unparseable.
NoDate(i) == Parse(files[i]).date.kind # "ok"

\* C12: a candidate without a parseable Date is never the retained offer of
\* a key for which the run built a candidate with a parseable Date, in
\* whichever order the two were encountered.
C12_NoDateLoses ==
  pc = "written" =>
    \A i, j \in Cands :
      (KeyOf(i) = KeyOf(j) /\ NoDate(i) /\ ~NoDate(j)) => ~Retained(i, i)

\* C12 witness: an artifact holds the dated candidate of a key that was
\* encountered after an undated candidate and before another one.
C12_Witness ==
  /\ pc = "written"
  /\ \E i, j, k \in Cands :
       /\ i < j /\ j < k
       /\ KeyOf(i) = KeyOf(j) /\ KeyOf(j) = KeyOf(k)
       /\ NoDate(i) /\ ~NoDate(j) /\ NoDate(k)
       /\ Retained(j, j)

\* C13: while the loop runs the ledger file holds the in-memory ledger, and
\* the run that follows a crashed run has in its ledger every message the
\* crashed run had built a candidate from.
C13_LedgerFileFollowsMemory ==
  /\ pc = "loop" => disk = [ok |-> TRUE, ids |-> seen]
  /\ (pc = "loop" /\ prev.end = "crashed") =>
        \A i \in Idx(prev.trace) :
          prev.trace[i].cand => MsgId(prev.files[i]) \in seen

\* C14: every identity the ledger file held when the process was killed in
\* the loop, a kill in the middle of a ledger write included, is still in
\* the file, and the file is still valid JSON.
C14_CrashKeepsDurable ==
  [][pc' = "crashed" => \A m \in disk.ids : disk'.ok /\ m \in disk'.ids]_vars

\* The Message-ID header of the message in a file, "" when it has none.
Native(bytes) == Parse(bytes).msgid

\* C15: the identity under which a message enters the ledger and its offer
\* is its Message-ID when it has one, else "<" + md5 of the file + ">"; a
\* file with the bytes of a file examined before it in the run, whose
\* identity went into the ledger, is recognised as that message.
C15_IdentityFromBytes ==
  /\ \A i \in Cands :
       /\ Native(files[i]) # "" => Native(files[i]) \in seen
       /\ Native(files[i]) = "" => ("<" \o Md5Hex(files[i]) \o ">") \in seen
  /\ \A j \in Idx(latest) :
       \E i \in Cands :
         /\ latest[j].offer.title = Subj(i, files[i])
         /\ latest[j].offer.message_id =
              IF Native(files[i]) # "" THEN Native(files[i])
              ELSE "<" \o Md5Hex(files[i]) \o ">"
  /\ \A i, j \in Idx(trace) :
       (i < j /\ files[i] = files[j] /\ trace[i].cand) => ~trace[j].cand

\* C15 witness: of two files with the same bytes and no Message-ID the
\* first became the retained offer of its key under the md5 identity and
\* the second was skipped as seen.
C15_Witness ==
  \E i, j \in Idx(trace) :
    /\ i < j /\ files[i] = files[j] /\ Native(files[i]) = ""
    /\ trace[i].st = "CandidateBuilt" /\ trace[j].st = "SkippedAsSeen"
    /\ \E k \in Idx(latest) :
         latest[k].offer.message_id = "<" \o Md5Hex(files[i]) \o ">"

\* The last call was is_tracking_pixel.
PixelCall == probe.fn = "is_tracking_pixel"

\* An attribute value that is an integer once 'px' is removed.
Declared(a) == a # "" /\ IntOf(ReplacePx(a)).ok

\* C16: an image no other check discards is discarded only when its width
\* and height are both declared as integers and both below the threshold.
C16_DiscardsOnlyBothSmall ==
  (/\ PixelCall
   /\ ~PatternHit(probe.url) /\ ~ScriptHit(probe.url)
   /\ ~DomainHit(probe.url) /\ ~ParamHit(probe.url)
   /\ probe.out = "True")
    => /\ probe.tag.tag
       /\ Declared(probe.tag.width) /\ Declared(probe.tag.height)
       /\ IntOf(ReplacePx(probe.tag.width)).n < MINIMUM_IMAGE_SIZE
       /\ IntOf(ReplacePx(probe.tag.height)).n < MINIMUM_IMAGE_SIZE

\* The dimension check as a condition on the tag: there is a tag, neither
\* attribute is unparseable, and a dimension is below the threshold (an
\* absent attribute counting as 999).
Undersized(t) ==
  /\ t.tag
  /\ \A a \in {t.width, t.height} : a = "" \/ Declared(a)
  /\ \E a \in {t.width, t.height} :
       Declared(a) /\ IntOf(ReplacePx(a)).n < MINIMUM_IMAGE_SIZE

\* C17: is_tracking_pixel returns True when one of its five checks is true,
\* False when none is, and nothing else: it does not raise.
C17_OrOfFiveChecks ==
  PixelCall =>
    probe.out =
      IF \/ PatternHit(probe.url) \/ ScriptHit(probe.url)
         \/ Undersized(probe.tag)
         \/ DomainHit(probe.url) \/ ParamHit(probe.url)
      THEN "True" ELSE "False"

\* C17 witness: an image with an unparseable width and a small height that
\* no check discards was kept.
C17_Witness ==
  /\ PixelCall
  /\ probe.tag.tag
  /\ probe.tag.width # "" /\ ~Declared(probe.tag.width)
  /\ Declared(probe.tag.height)
  /\ IntOf(probe.tag.height).n < MINIMUM_IMAGE_SIZE
  /\ probe.out = "False"

\* The last call was _cat; the keywords in its lower-cased text.
CatCall == probe.fn = "_cat"
CatHas(k) == k \in KeywordsOf(probe.sub, probe.body)

\* C18: the category is that of the first keyword, in the order spc, lvt,
\* laminate, tile, solid together with hardwood, that occurs in the
\* lower-cased subject and body, and Other when none does.
C18_FirstKeywordWins ==
  CatCall =>
    /\ CatHas("spc") => probe.out = "SPC Flooring"
    /\ (~CatHas("spc") /\ CatHas("lvt")) => probe.out = "LVT Flooring"
    /\ (~CatHas("spc") /\ ~CatHas("lvt") /\ CatHas("laminate"))
         => probe.out = "Laminate Flooring"
    /\ (~CatHas("spc") /\ ~CatHas("lvt") /\ ~CatHas("laminate")
          /\ CatHas("tile")) => probe.out = "Tile"
    /\ probe.out = "Solid Hardwood" =>
         (CatHas("solid") /\ CatHas("hardwood"))
    /\ (~CatHas("spc") /\ ~CatHas("lvt") /\ ~CatHas("laminate")
          /\ ~CatHas("tile")) =>
         probe.out = IF CatHas("solid") /\ CatHas("hardwood")
                     THEN "Solid Hardwood" ELSE "Other"

\* C18 witness: a text with 'tile' in its subject and 'spc' in its body is
\* SPC Flooring.
C18_Witness ==
  /\ CatCall
  /\ "tile" \in KeywordsOf(probe.sub, <<>>)
  /\ "spc" \in KeywordsOf(<<>>, probe.body)
  /\ probe.out = "SPC Flooring"

\* The last call was _body.
BodyCall == probe.fn = "_body"

\* The positions of the parts of a content type that are not attachments,
\* and of those among them that decode to text that is not empty.
OfType(parts, ctype) ==
  {i \in Idx(parts) : parts[i].ctype = ctype /\ ~parts[i].attach}
Usable(parts, ctype) ==
  {i \in OfType(parts, ctype) : parts[i].ok /\ parts[i].text # <<>>}

\* The first position of a non-empty set of positions.
First(S) == CHOOSE i \in S : \A j \in S : i <= j

\* The decoded text of a part, empty when it does not decode.
TextOf(p) == IF p.ok THEN p.text ELSE <<>>

\* C19 as stated: the HTML candidate is the first text/html part that is
\* not an attachment, the plain candidate the first such text/plain part.
C19_FirstPartOfType ==
  BodyCall =>
    /\ OfType(probe.parts, "text/html") # {} =>
         probe.html = TextOf(probe.parts[First(OfType(probe.parts, "text/html"))])
    /\ OfType(probe.parts, "text/plain") # {} =>
         probe.plain = TextOf(probe.parts[First(OfType(probe.parts, "text/plain"))])

\* C19 as amended: the HTML candidate is the first text/html part, not an
\* attachment, that decodes to text that is not empty, the plain candidate
\* the first such text/plain part; there is no candidate of a type without
\* such a part.
C19_FirstUsablePartOfType ==
  BodyCall =>
    /\ probe.html =
         IF Usable(probe.parts, "text/html") = {} THEN <<>>
         ELSE probe.parts[First(Usable(probe.parts, "text/html"))].text
    /\ probe.plain =
         IF Usable(probe.parts, "text/plain") = {} THEN <<>>
         ELSE probe.parts[First(Usable(probe.parts, "text/plain"))].text

\* C19 witness: of two text/html parts with different text, after a
\* text/html attachment, the first is the HTML candidate.
C19_Witness ==
  /\ BodyCall
  /\ \E a, i, j \in Idx(probe.parts) :
       /\ a < i /\ i < j
       /\ probe.parts[a].ctype = "text/html" /\ probe.parts[a].attach
       /\ {i, j} \subseteq Usable(probe.parts, "text/html")
       /\ probe.parts[i].text # probe.parts[j].text
       /\ probe.html = probe.parts[i].text

\* The canonical body of a message by the rule: the text of the HTML
\* candidate when there is one, else the plain candidate, else empty.
Canon(parts) ==
  IF Usable(parts, "text/html") # {}
  THEN GetText(parts[First(Usable(parts, "text/html"))].text)
  ELSE IF Usable(parts, "text/plain") # {}
  THEN parts[First(Usable(parts, "text/plain"))].text
  ELSE <<>>

\* The message in a file has neither a text/html nor a text/plain part.
NoBody(bytes) ==
  /\ OfType(Parse(bytes).parts, "text/html") = {}
  /\ OfType(Parse(bytes).parts, "text/plain") = {}

\* C20: the product_description of every retained offer is the canonical
\* body of its message, and an unseen message with neither body part can
\* be processed to CandidateBuilt, its offer having an empty description.
C20_CanonicalBody ==
  /\ \A j \in Idx(latest) :
       \E i \in Cands :
         /\ latest[j].offer.message_id = MsgId(files[i])
         /\ latest[j].offer.title = Subj(i, files[i])
         /\ latest[j].offer.product_description = Canon(Parse(files[i]).parts)
         /\ NoBody(files[i]) => latest[j].offer.product_description = <<>>
  /\ (InLoop /\ MsgId(files[idx]) \notin seen /\ NoBody(files[idx])) =>
       ENABLED (ProcessOk({}) /\ trace'[Len(trace')].st = "CandidateBuilt")

\* C20 witness: the retained offers of a run are one of a message without a
\* body part, its description empty, and one of a message whose HTML part
\* came after its plain part, its description the text of the HTML part.
C20_Witness ==
  \E i, k \in Cands :
    /\ NoBody(files[i]) /\ trace[i].st = "CandidateBuilt"
    /\ \E j \in Idx(latest) :
         /\ latest[j].offer.message_id = MsgId(files[i])
         /\ latest[j].offer.product_description = <<>>
    /\ Usable(Parse(files[k]).parts, "text/html") # {}
    /\ Usable(Parse(files[k]).parts, "text/plain") # {}
    /\ First(Usable(Parse(files[k]).parts, "text/plain"))
         < First(Usable(Parse(files[k]).parts, "text/html"))
    /\ \E j \in Idx(latest) :
         /\ latest[j].offer.message_id = MsgId(files[k])
         /\ latest[j].offer.product_description
              = GetText(Parse(files[k]).parts[
                  First(Usable(Parse(files[k]).parts, "text/html"))].text)

\* ---------------------------------------------------------------------- C21
SaveImgsCall == probe.fn = "_save_imgs"

\* The positions of the walk whose part _save_imgs saves: image parts with
\* a payload whose write did not fail.
SavedAt(parts, oserr) ==
  {i \in Idx(parts) : parts[i].maintype = "image" /\ parts[i].data # 0
                       /\ i \notin oserr}

\* C21: _save_imgs returns one filename for every part of main type image,
\* inline or attached, that has a payload and was written, a part with no
\* payload or of another type giving none; the filenames are in walk
\* order.  primary_image is the first of them ("" when there is none) and
\* more_images the others in order.
C21_SavedInWalkOrder ==
  SaveImgsCall =>
    LET S == SavedAt(probe.parts, probe.oserr)
        names == probe.out
    IN /\ Len(names) = Cardinality(S)
       /\ \A i \in S :
            names[Cardinality({k \in S : k <= i})] = ImgName(probe.parts[i])
       /\ probe.primary_image = (IF S = {} THEN "" ELSE names[1])
       /\ Len(probe.more_images) = (IF S = {} THEN 0 ELSE Len(names) - 1)
       /\ \A j \in Idx(probe.more_images) : probe.more_images[j] = names[j + 1]

\* A message with a part without payload between an inline and an attached
\* image: both images are returned, in walk order.
C21_Witness ==
  /\ SaveImgsCall
  /\ probe.oserr = {}
  /\ Len(probe.parts) = MaxParts
  /\ \E i, j, k \in Idx(probe.parts) :
       /\ i < j /\ j < k
       /\ probe.parts[i].maintype = "image" /\ ~probe.parts[i].attach
       /\ probe.parts[i].data # 0
       /\ probe.parts[j].data = 0
       /\ probe.parts[k].maintype = "image" /\ probe.parts[k].attach
  /\ Len(probe.out) = 2
  /\ probe.more_images = <<"photo.jpg">>

\* ---------------------------------------------------------------------- C22
\* C22: a file of the image folder is never overwritten with other bytes:
\* whenever an image part is saved under the name of a stored file, in the
\* same or a later run, its bytes are the stored file's bytes.
C22_NeverOverwrittenWithOtherBytes ==
  [][\A old \in imageDir, new \in imageDir' :
       new.name = old.name => new.data = old.data]_vars

\* ---------------------------------------------------------------------- C23
CleanSubjCall == probe.fn = "_clean_subj"

\* A subject without its surrounding whitespace, without one leading
\* marker and the whitespace after it, in lower case.
Bare(sub) ==
  LET t == Strip[sub]
  IN Casefold[IF t # <<>> /\ IsMarker(t[1]) THEN LStrip[Tail(t)] ELSE t]

\* Two subjects differ only by one leading marker, letter case or
\* surrounding whitespace.
SameButFor(sub, other) == Bare(sub) = Bare(other)

\* Whitespace precedes a leading marker of the subject.
SpaceBeforeMarker(sub) ==
  /\ sub # <<>> /\ IsSpace(sub[1])
  /\ Strip[sub] # <<>> /\ IsMarker(Strip[sub][1])

\* The subject begins with two markers, with or without whitespace between.
Stacked(sub) ==
  /\ sub # <<>> /\ IsMarker(sub[1])
  /\ LStrip[Tail(sub)] # <<>> /\ IsMarker(LStrip[Tail(sub)][1])

\* C23 as stated: subjects that differ only by one leading marker, letter
\* case or surrounding whitespace have the same DedupGroupKey, and the
\* second of two stacked markers is left in the key.
C23_MarkerCaseSpaceShareKey ==
  CleanSubjCall =>
    /\ \A other \in Subjects :
         SameButFor(probe.sub, other) => CleanSubj(other) = probe.out
    /\ Stacked(probe.sub) =>
         probe.out[1] = Lower(LStrip[Tail(probe.sub)][1])

\* C23 amended: the marker is removed only where it is the very first text
\* of the subject.  Subjects in which no whitespace precedes a leading
\* marker and that differ only by one leading marker, letter case or
\* surrounding whitespace have the same DedupGroupKey; a marker preceded by
\* whitespace is left in the key, and so is the second of two stacked
\* markers.
C23_MarkerAtStartCaseSpaceShareKey ==
  CleanSubjCall =>
    /\ \A other \in Subjects :
         /\ SameButFor(probe.sub, other)
         /\ ~SpaceBeforeMarker(probe.sub) /\ ~SpaceBeforeMarker(other)
         => CleanSubj(other) = probe.out
    /\ SpaceBeforeMarker(probe.sub) =>
         probe.out = Casefold[Strip[probe.sub]]
    /\ Stacked(probe.sub) =>
         probe.out[1] = Lower(LStrip[Tail(probe.sub)][1])
    /\ probe.out = Strip[probe.out] /\ probe.out = Casefold[probe.out]

\* A subject with one leading marker, upper-case letters and whitespace at
\* its end has the key of the bare lower-case subject.
C23_Witness ==
  /\ CleanSubjCall
  /\ probe.sub = <<"Fwd:", "OFFER:", " ", "SPC", " ">>
  /\ probe.out = <<"offer:", " ", "spc">>
  /\ probe.out \in Subjects /\ CleanSubj(probe.out) = probe.out

\* ---------------------------------------------------------------------- C24
ExtractCall == probe.fn = "extract_quality_images"

\* The tags of the HTML that carry the address src and are not filtered.
TagsOf(src) ==
  {i \in Idx(probe.imgs) : probe.imgs[i].src = src /\ Quality(probe.imgs[i])}

\* The address is that of an image with a product keyword in its alt text.
Keyworded(src) == \E i \in TagsOf(src) : ProductAlt(probe.imgs[i].alt)

\* C24: every address extract_quality_images returns begins with http:// or
\* https:// and is the src of a tag for which is_tracking_pixel is False;
\* no address occurs twice; and the address of every image with a product
\* keyword in its alt text stands before every address without such an
\* image.
C24_QualityImagesOnly ==
  ExtractCall =>
    /\ \A j \in Idx(probe.out) :
         /\ probe.out[j].scheme \in {"http://", "https://"}
         /\ \E i \in Idx(probe.imgs) :
              /\ probe.imgs[i].src = probe.out[j]
              /\ IsTrackingPixel(probe.out[j].url,
                                 Tag(probe.imgs[i].width, probe.imgs[i].height))
                   = "False"
    /\ \A j, k \in Idx(probe.out) : j # k => probe.out[j] # probe.out[k]
    /\ \A j, k \in Idx(probe.out) :
         Keyworded(probe.out[j]) /\ ~Keyworded(probe.out[k]) => j < k

\* An HTML with a filtered http image in which an image without a product
\* alt text precedes a product image: the product image is returned first.
C24_Witness ==
  /\ ExtractCall
  /\ Len(probe.imgs) >= 3
  /\ \E i \in Idx(probe.imgs) : StartsWithHttp(probe.imgs[i].src)
                                  /\ ~Quality(probe.imgs[i])
  /\ Len(probe.out) = 2
  /\ Keyworded(probe.out[1]) /\ ~Keyworded(probe.out[2])
  /\ \E i \in TagsOf(probe.out[1]), k \in TagsOf(probe.out[2]) : k < i

\* ---------------------------------------------------------------------- C25
ParseOfferCall == probe.fn = "parse_offer"

\* The first entry of a comma-separated text: text.split(',')[0].
FirstEntry(text) ==
  IF \E i \in Idx(text) : text[i] = ","
  THEN SubSeq(text, 1, (CHOOSE i \in Idx(text) :
                          /\ text[i] = ","
                          /\ \A k \in 1..(i - 1) : text[k] # ",") - 1)
  ELSE text

\* C25: the photos of an offer are its attachment URLs followed by its
\* quality inline images, the first five of them at most; an inline image
\* whose upload fails stands under its original address; photo_count is
\* min(5, attachment URLs + quality inline images); and 'photo' is the
\* first entry of the comma-separated 'photos'.
C25_PhotosOfOffer ==
  ParseOfferCall =>
    LET r == probe.out
        natt == Len(r.attachment_images)
    IN /\ r.photo_count = Min(PhotoLimit, natt + Len(r.inline_images))
       /\ Len(r.all_photo_urls) = r.photo_count
       /\ \A j \in Idx(r.all_photo_urls) :
            /\ j <= natt => r.all_photo_urls[j] = r.attachment_images[j]
            /\ j > natt /\ j \in probe.upfail =>
                 r.all_photo_urls[j] = r.inline_images[j - natt]
            /\ j > natt /\ j \notin probe.upfail =>
                 InDrive(r.all_photo_urls[j])
       /\ r.photo = FirstEntry(r.photos)

\* ---------------------------------------------------------------------- C26
\* The message identities of the offers of an artifact.
Emitted(artifact) == {artifact[j].message_id : j \in Idx(artifact)}

\* C26: when a run writes its artifact, the ledger file holds the identity
\* of every offer in it, and none of these offers was in the artifact of
\* an earlier run.
C26_EmittedIsInLedgerFile ==
  [][Len(artifacts') = Len(artifacts) + 1 =>
       /\ disk.ok
       /\ Emitted(artifacts'[Len(artifacts')]) \subseteq disk.ids
       /\ \A n \in Idx(artifacts) :
            Emitted(artifacts[n]) \cap Emitted(artifacts'[Len(artifacts')]) = {}]_vars

\* ---------------------------------------------------------------------- C27
\* Some artifact holds the winning offer of the group of the i-th file of
\* the folder: an offer of its DedupGroupKey that is at least as recent.
Covered(i) ==
  \E n \in Idx(artifacts) : \E j \in Idx(artifacts[n]) :
    /\ i \in Idx(folder)
    /\ CleanSubj(artifacts[n][j].title) = CleanSubj(Subj(i, folder[i]))
    /\ AsDt(artifacts[n][j].date_received) >= AsDt(Parse(folder[i]).date)

\* The run before this one recorded the i-th file in the ledger file and
\* stopped at the write of its artifact, and this run is a re-run on the
\* same source set.
RerunOwes(i) ==
  /\ pc = "loop"
  /\ prev.end = "fatal"
  /\ prev.files = files
  /\ i \in Idx(prev.trace)
  /\ prev.trace[i].st = "CandidateBuilt"
  /\ MsgId(files[i]) \in start.disk.ids

\* C27: when a run has recorded a message in the ledger file and stopped
\* before its artifact was written, a re-run on the same source set leads
\* to an artifact that holds the winning offer of the message's group.
C27_RerunEmitsWhatWasOwed ==
  \A i \in 1..MaxFiles : RerunOwes(i) ~> Covered(i)

\* ---------------------------------------------------------------------- C28
\* C28: of two offers of one DedupGroupKey emitted by two runs, the one of
\* the later run has no earlier parsed timestamp than the one of the
\* earlier run.
C28_LaterRunNeverOlder ==
  \A n \in Idx(artifacts), m \in Idx(artifacts) :
    n < m =>
      \A j \in Idx(artifacts[n]), k \in Idx(artifacts[m]) :
        CleanSubj(artifacts[n][j].title) = CleanSubj(artifacts[m][k].title)
          => AsDt(artifacts[m][k].date_received)
               >= AsDt(artifacts[n][j].date_received)

\* ---------------------------------------------------------------------- C29
\* The POST /companies requests that carry the name, in any letter case.
CompanyPosts(name) ==
  {r \in 1..MaxReqs : /\ reqs[r].handler = "create_company"
                        /\ NameLower(reqs[r].name) = NameLower(name)}

\* C29: of the POST /companies requests that carry one name, in whatever
\* order their steps interleave, at most one creates a company record, and
\* once one has, every other one that was answered, unless Airtable failed
\* it, got 409 Conflict.
C29_OneCreatorPerName ==
  \A name \in Names :
    /\ Cardinality({r \in CompanyPosts(name) : reqs[r].created}) <= 1
    /\ \A r \in CompanyPosts(name), q \in CompanyPosts(name) :
         reqs[q].created /\ r # q /\ reqs[r].at = "done" /\ reqs[r].status # 500
           => reqs[r].status = 409

\* ---------------------------------------------------------------------- C30
\* C30: when POST /calls creates a company record, the Company table holds
\* no company of that name, whether the lookup was answered or failed; a
\* call of a company the table holds is linked to its first record.
C30_CallCreatesOnlyMissingCompany ==
  [][\A r \in 1..MaxReqs :
       reqs[r].handler = "create_call" =>
         /\ (reqs'[r].created /\ ~reqs[r].created)
              => Matching(companies, reqs[r].name) = {}
         /\ (Len(calls') > Len(calls) /\ reqs'[r].at = "done"
              /\ reqs[r].at # "done" /\ ~reqs[r].created)
              => calls'[Len(calls')].lead = FirstMatch(companies, reqs[r].name)]_vars
====
